---- MODULE Spec2Model ----
(***************************************************************************)
(* FloodWise single-page application: the Dashboard page (slider state,   *)
(* mock prediction behind a one-shot timer), the NotFound page (logs the  *)
(* unmatched path from an effect) and the navigation between them.        *)
(*                                                                         *)
(* Numbers are kept in tenths (50 mm is 500, 0.1 m is 1) so that the      *)
(* fractional slider steps 0.1 and 0.5 stay integers.  Strings are kept   *)
(* in ASCII: the emoji prefixes of the verdicts and the degree and cube   *)
(* signs of two feature names are dropped.                                *)
(***************************************************************************)
EXTENDS Integers, Sequences, FiniteSets, TLC

VARIABLES
    pathname,          \* location.pathname of the router
    phase,             \* Dashboard: "unmounted", "rendered" (first render, mount effect not yet run), "mounted"
    isLoaded,          \* Dashboard useState
    isSubmitting,      \* Dashboard useState
    featureValues,     \* Dashboard useState: function from feature name to value
    predictionResult,  \* Dashboard useState: Null or Some(verdict string)
    aiInsights,        \* Dashboard useState: Null or Some(insight text)
    loadTimer,         \* the 100 ms timer of the mount effect is pending
    predictTimers,     \* pending 2000 ms timers, oldest first: [ownerMounted, featureValues]
    toasts,            \* toast calls made so far
    notFoundDeps,      \* NotFound: dependency array of the last committed render of the effect
    effectPending,     \* NotFound: the effect is scheduled and has not run yet
    console            \* console.error calls made so far

vars == <<pathname, phase, isLoaded, isSubmitting, featureValues,
          predictionResult, aiInsights, loadTimer, predictTimers, toasts,
          notFoundDeps, effectPending, console>>

dashVars == <<phase, isLoaded, isSubmitting, featureValues,
              predictionResult, aiInsights, loadTimer>>

(***************************************************************************)
(* Bounds of the exploration.                                              *)
(***************************************************************************)
MaxTicks == 0        \* slider positions explored above the default, in steps
MaxToasts == 2       \* toast calls (predictions and resets) in one run
MaxLog == 4          \* console.error calls in one run
RandomResolution == 4   \* Math.random() is drawn from k / RandomResolution

Null == <<>>
Some(x) == <<x>>

(***************************************************************************)
(* Static tables of the Dashboard.                                         *)
(***************************************************************************)
mockFeatureNames ==
    << "Rainfall (mm)", "Water Level (m)", "Temperature (C)", "Humidity (%)",
       "Wind Speed (km/h)", "River Discharge (m3/s)", "Soil Moisture (%)",
       "Elevation (m)" >>

FeatureNames == { mockFeatureNames[i] : i \in 1..Len(mockFeatureNames) }

featureDefaults ==
    [ n \in FeatureNames |->
        CASE n = "Rainfall (mm)"          -> [default |-> 500,  min |-> 0,    max |-> 3000,  step |-> 10]
          [] n = "Water Level (m)"        -> [default |-> 20,   min |-> 0,    max |-> 100,   step |-> 1]
          [] n = "Temperature (C)"        -> [default |-> 250,  min |-> -100, max |-> 500,   step |-> 5]
          [] n = "Humidity (%)"           -> [default |-> 600,  min |-> 0,    max |-> 1000,  step |-> 10]
          [] n = "Wind Speed (km/h)"      -> [default |-> 150,  min |-> 0,    max |-> 1500,  step |-> 10]
          [] n = "River Discharge (m3/s)" -> [default |-> 1000, min |-> 0,    max |-> 10000, step |-> 50]
          [] n = "Soil Moisture (%)"      -> [default |-> 400,  min |-> 0,    max |-> 1000,  step |-> 10]
          [] n = "Elevation (m)"          -> [default |-> 500,  min |-> 0,    max |-> 5000,  step |-> 10] ]

\* featureDefaults[name]?.default || 0
DefaultOf(name) ==
    IF name \in DOMAIN featureDefaults /\ featureDefaults[name].default # 0
    THEN featureDefaults[name].default
    ELSE 0

\* the object both the mount effect and handleReset build with forEach
Defaults == [ n \in FeatureNames |-> DefaultOf(n) ]

\* SliderProps with the lookup always missing, so that every slider gets
\* the fallback range
SliderPropsFallbackOnly(name) == [min |-> 0, max |-> 1000, step |-> 10]

\* featureDefaults[name] || { min: 0, max: 100, step: 1 }
SliderProps(name) ==
    IF name \in DOMAIN featureDefaults
    THEN [min |-> featureDefaults[name].min, max |-> featureDefaults[name].max,
          step |-> featureDefaults[name].step]
    ELSE [min |-> 0, max |-> 1000, step |-> 10]

\* value={[featureValues[name] || 0]}
SliderValue(fv, name) ==
    IF name \in DOMAIN fv /\ fv[name] # 0 THEN fv[name] ELSE 0

\* Number.prototype.toFixed(digits), digits in {0, 1}, as the number the
\* produced string denotes (ties are rounded away from zero)
toFixed(v, digits) ==
    IF digits = 1
    THEN v
    ELSE IF v >= 0 THEN ((v + 5) \div 10) * 10 ELSE -(((-v + 5) \div 10) * 10)

\* {featureValues[name]?.toFixed(step < 1 ? 1 : 0)}: Null when the value is undefined
Displayed(fv, name) ==
    IF name \in DOMAIN fv
    THEN Some(toFixed(fv[name], IF SliderProps(name).step < 10 THEN 1 ELSE 0))
    ELSE Null

\* The values onValueChange can deliver: points of the step grid within
\* [min, max]; the two ends, the default and the MaxTicks steps above the
\* default are explored.
SliderEmits(name) ==
    LET p == SliderProps(name)
        d == DefaultOf(name)
    IN  { v \in {p.min, p.max} \cup { d + k * p.step : k \in 0..MaxTicks } :
            v >= p.min /\ v <= p.max }

(***************************************************************************)
(* Router.                                                                 *)
(***************************************************************************)
Paths == { "/", "/dashboard", "/forecast", "/about" }

Route(p) ==
    CASE p = "/"          -> "Index"
      [] p = "/dashboard" -> "Dashboard"
      [] OTHER            -> "NotFound"

\* an empty dependency array: the effect would run on mount only
NotFoundEffectDepsEmpty(loc) == <<>>

\* the dependency array of the effect of NotFound
NotFoundEffectDeps(loc) == <<loc>>

\* navItems of the navigation bar
navItems == { "/", "/dashboard" }

(***************************************************************************)
(* Mock prediction.                                                        *)
(***************************************************************************)
RandomDraws == 0..(RandomResolution - 1)

\* Math.random() > 0.5, the draw being r / RandomResolution
isHighRisk(r) == 2 * r > RandomResolution

HighResult == "High Flood Risk Level!"
LowResult == "Low Flood Risk Level."

Result(high) == IF high THEN HighResult ELSE LowResult

\* `${number}`: Number::toString of a value kept in tenths
NumberToString(v) ==
    LET a == IF v < 0 THEN -v ELSE v
        s == IF v < 0 THEN "-" ELSE ""
    IN  IF a % 10 = 0
        THEN s \o ToString(a \div 10)
        ELSE s \o ToString(a \div 10) \o "." \o ToString(a % 10)

\* `${featureValues[name]}`
Interpolate(fv, name) ==
    IF name \in DOMAIN fv THEN NumberToString(fv[name]) ELSE "undefined"

\* the template literal with humidity interpolated into both bullet blocks
InsightsHumidityInBoth(high, fv) ==
    [ heading |-> IF high THEN "Key risk factors:" ELSE "Favorable conditions:",
      interpolated |->
          << Interpolate(fv, "Rainfall (mm)"), Interpolate(fv, "Water Level (m)"),
             Interpolate(fv, "Humidity (%)") >>,
      recommendations |->
          IF high THEN "Monitor precipitation forecasts closely"
                  ELSE "Continue regular monitoring" ]

\* the template literal: the heading, the bullet block with the values
\* interpolated into it in order of appearance, and the recommendations
Insights(high, fv) ==
    [ heading |-> IF high THEN "Key risk factors:" ELSE "Favorable conditions:",
      interpolated |->
          IF high
          THEN << Interpolate(fv, "Rainfall (mm)"), Interpolate(fv, "Water Level (m)"),
                  Interpolate(fv, "Humidity (%)") >>
          ELSE << Interpolate(fv, "Rainfall (mm)"), Interpolate(fv, "Water Level (m)") >>,
      recommendations |->
          IF high THEN "Monitor precipitation forecasts closely"
                  ELSE "Continue regular monitoring" ]

\* the uiToast call at the end of the timer callback
PredictionToast(high) ==
    IF high
    THEN [via |-> "uiToast", variant |-> "destructive", title |-> "High Flood Risk Detected"]
    ELSE [via |-> "uiToast", variant |-> "default", title |-> "Low Flood Risk Detected"]

ResetToast ==
    [via |-> "sonner", variant |-> "success",
     title |-> "All parameters have been reset to default values"]

\* setFeatureValues(prev => ({ ...prev, [name]: value[0] }))
SetFeature(prev, name, v) ==
    [ k \in (DOMAIN prev) \cup {name} |-> IF k = name THEN v ELSE prev[k] ]

(***************************************************************************)
(* The state of a Dashboard instance as one record, and the handlers as   *)
(* functions on it.                                                        *)
(***************************************************************************)
InitialDashboard ==
    [ isLoaded |-> FALSE, isSubmitting |-> FALSE, featureValues |-> <<>>,
      predictionResult |-> Null, aiInsights |-> Null ]

Dashboard ==
    [ isLoaded |-> isLoaded, isSubmitting |-> isSubmitting,
      featureValues |-> featureValues, predictionResult |-> predictionResult,
      aiInsights |-> aiInsights ]

handleSliderChange(d, name, v) ==
    [d EXCEPT !.featureValues = SetFeature(d.featureValues, name, v)]

\* handleReset without the call of setAiInsights(null)
handleResetKeepsInsights(d) ==
    [d EXCEPT !.featureValues = Defaults, !.predictionResult = Null]

\* handleReset without the call of setFeatureValues
handleResetKeepsValues(d) ==
    [d EXCEPT !.predictionResult = Null, !.aiInsights = Null]

handleReset(d) ==
    [d EXCEPT !.featureValues = Defaults, !.predictionResult = Null, !.aiInsights = Null]

\* handlePredict without the call of setIsSubmitting(true)
handlePredictNeverSubmitting(d) == d

\* the synchronous part of handlePredict
handlePredict(d) == [d EXCEPT !.isSubmitting = TRUE]

\* the keys of featureValues the timer callback reads
ReadByCallback == { "Rainfall (mm)", "Water Level (m)", "Humidity (%)" }

\* the closure of the timer callback: the state setters of the instance that
\* was clicked, which act only while that instance is mounted, and
\* featureValues of the render in which the click happened, kept for the
\* keys the callback reads
Closure(d) ==
    [ ownerMounted |-> TRUE,
      featureValues |->
          [ k \in (DOMAIN d.featureValues) \cap ReadByCallback |-> d.featureValues[k] ] ]

\* the timer callback with a verdict computed from the rainfall reading
TimerCallbackFromRainfall(d, timer, r) ==
    LET high == \/ isHighRisk(r)
                \/ /\ "Rainfall (mm)" \in DOMAIN timer.featureValues
                   /\ timer.featureValues["Rainfall (mm)"] > 1000
    IN  [ dashboard |->
              [d EXCEPT !.predictionResult = Some(Result(high)),
                        !.aiInsights = Some(Insights(high, timer.featureValues)),
                        !.isSubmitting = FALSE],
          toast |-> PredictionToast(high) ]

\* the timer callback writing the featureValues of its closure back
TimerCallbackWritesBack(d, timer, r) ==
    LET high == isHighRisk(r)
    IN  [ dashboard |->
              [d EXCEPT !.predictionResult = Some(Result(high)),
                        !.aiInsights = Some(Insights(high, timer.featureValues)),
                        !.isSubmitting = FALSE,
                        !.featureValues =
                            [ k \in DOMAIN d.featureValues |->
                                IF k \in DOMAIN timer.featureValues
                                THEN timer.featureValues[k]
                                ELSE d.featureValues[k] ]],
          toast |-> PredictionToast(high) ]

\* the timer callback reading the featureValues of the latest render
TimerCallbackReadsCurrent(d, timer, r) ==
    LET high == isHighRisk(r)
    IN  [ dashboard |->
              [d EXCEPT !.predictionResult = Some(Result(high)),
                        !.aiInsights = Some(Insights(high, d.featureValues)),
                        !.isSubmitting = FALSE],
          toast |-> PredictionToast(high) ]

\* the timer callback without the call of setIsSubmitting(false)
TimerCallbackStaysSubmitting(d, timer, r) ==
    LET high == isHighRisk(r)
    IN  [ dashboard |->
              [d EXCEPT !.predictionResult = Some(Result(high)),
                        !.aiInsights = Some(Insights(high, timer.featureValues))],
          toast |-> PredictionToast(high) ]

\* the timer callback, for the draw r: the state it leaves in the instance
\* that scheduled it, and the toast it shows
TimerCallback(d, timer, r) ==
    LET high == isHighRisk(r)
    IN  [ dashboard |->
              [d EXCEPT !.predictionResult = Some(Result(high)),
                        !.aiInsights = Some(Insights(high, timer.featureValues)),
                        !.isSubmitting = FALSE],
          toast |-> PredictionToast(high) ]

SetDashboard(d) ==
    /\ isLoaded' = d.isLoaded
    /\ isSubmitting' = d.isSubmitting
    /\ featureValues' = d.featureValues
    /\ predictionResult' = d.predictionResult
    /\ aiInsights' = d.aiInsights

\* The slider gestures explored: one slider is away from its default at a
\* time (the features are independent of each other: no handler reads one
\* feature to write another).
Explored(fv) == Cardinality({ k \in DOMAIN fv : fv[k] # DefaultOf(k) }) <= 1

\* passive effects are flushed before the next event is handled
EffectsFlushed == phase # "rendered" /\ ~effectPending

(***************************************************************************)
(* Initial state: the page is loaded at any path and rendered once.       *)
(***************************************************************************)
Init ==
    /\ pathname \in Paths
    /\ phase = IF Route(pathname) = "Dashboard" THEN "rendered" ELSE "unmounted"
    /\ isLoaded = InitialDashboard.isLoaded
    /\ isSubmitting = InitialDashboard.isSubmitting
    /\ featureValues = InitialDashboard.featureValues
    /\ predictionResult = InitialDashboard.predictionResult
    /\ aiInsights = InitialDashboard.aiInsights
    /\ loadTimer = FALSE
    /\ predictTimers = <<>>
    /\ toasts = <<>>
    /\ notFoundDeps = IF Route(pathname) = "NotFound" THEN NotFoundEffectDeps(pathname) ELSE <<>>
    /\ effectPending = (Route(pathname) = "NotFound")
    /\ console = <<>>

(***************************************************************************)
(* Dashboard.                                                              *)
(***************************************************************************)
\* useEffect(..., []) of the Dashboard: installs the defaults and starts the
\* 100 ms animation timer
MountEffect ==
    /\ phase = "rendered"
    /\ phase' = "mounted"
    /\ featureValues' = Defaults
    /\ loadTimer' = TRUE
    /\ UNCHANGED <<pathname, isLoaded, isSubmitting, predictionResult,
                   aiInsights, predictTimers, toasts, notFoundDeps, effectPending,
                   console>>

\* the animation timer fires (it is cleared when the Dashboard unmounts)
LoadTimerFires ==
    /\ loadTimer
    /\ isLoaded' = TRUE
    /\ loadTimer' = FALSE
    /\ UNCHANGED <<pathname, phase, isSubmitting, featureValues,
                   predictionResult, aiInsights, predictTimers, toasts,
                   notFoundDeps, effectPending, console>>

\* onValueChange of the slider of feature name
SliderChange(name, v) ==
    /\ phase = "mounted"
    /\ EffectsFlushed
    /\ Explored(SetFeature(featureValues, name, v))
    /\ SetDashboard(handleSliderChange(Dashboard, name, v))
    /\ UNCHANGED <<pathname, phase, loadTimer, predictTimers, toasts,
                   notFoundDeps, effectPending, console>>

\* the Reset button without disabled={isSubmitting}
ResetNotDisabled ==
    /\ phase = "mounted"
    /\ EffectsFlushed
    /\ Len(toasts) + Len(predictTimers) < MaxToasts
    /\ SetDashboard(handleReset(Dashboard))
    /\ toasts' = Append(toasts, ResetToast)
    /\ UNCHANGED <<pathname, phase, loadTimer, predictTimers,
                   notFoundDeps, effectPending, console>>

\* onClick of "Reset Parameters" (disabled={isSubmitting})
Reset ==
    /\ phase = "mounted"
    /\ EffectsFlushed
    /\ ~isSubmitting
    /\ Len(toasts) + Len(predictTimers) < MaxToasts
    /\ SetDashboard(handleReset(Dashboard))
    /\ toasts' = Append(toasts, ResetToast)
    /\ UNCHANGED <<pathname, phase, loadTimer, predictTimers,
                   notFoundDeps, effectPending, console>>

\* onClick of "Generate Prediction" (disabled={isSubmitting})
Predict ==
    /\ phase = "mounted"
    /\ EffectsFlushed
    /\ ~isSubmitting
    /\ Len(toasts) + Len(predictTimers) < MaxToasts
    /\ SetDashboard(handlePredict(Dashboard))
    /\ predictTimers' = Append(predictTimers, Closure(Dashboard))
    /\ UNCHANGED <<pathname, phase, loadTimer, toasts, notFoundDeps,
                   effectPending, console>>

\* the oldest 2000 ms timer fires with the draw r; the state setters reach
\* the instance that scheduled it, and do nothing once it has unmounted
PredictTimerFires(r) ==
    /\ predictTimers # <<>>
    /\ LET timer == Head(predictTimers)
       IN  IF timer.ownerMounted
           THEN SetDashboard(TimerCallback(Dashboard, timer, r).dashboard)
           ELSE UNCHANGED <<isLoaded, isSubmitting, featureValues, predictionResult,
                            aiInsights>>
    /\ predictTimers' = Tail(predictTimers)
    /\ toasts' = Append(toasts, TimerCallback(Dashboard, Head(predictTimers), r).toast)
    /\ UNCHANGED <<pathname, phase, loadTimer, notFoundDeps,
                   effectPending, console>>

(***************************************************************************)
(* Navigation and the NotFound page.                                       *)
(***************************************************************************)
\* the pending timers after the Dashboard has unmounted: they stay pending,
\* their closures now hold the setters of an unmounted instance
Orphaned(timers) == [ i \in DOMAIN timers |-> [timers[i] EXCEPT !.ownerMounted = FALSE] ]

\* the location becomes p: the matched route element is kept when the route
\* stays the same, otherwise the old page unmounts and the new one renders
GoTo(p) ==
    /\ EffectsFlushed
    /\ pathname' = p
    /\ IF Route(p) = "Dashboard"
       THEN IF Route(pathname) = "Dashboard"
            THEN UNCHANGED <<dashVars, predictTimers>>
            ELSE /\ phase' = "rendered"
                 /\ SetDashboard(InitialDashboard)
                 /\ loadTimer' = FALSE
                 /\ UNCHANGED predictTimers
       ELSE /\ phase' = "unmounted"
            /\ SetDashboard(InitialDashboard)
            /\ loadTimer' = FALSE
            /\ predictTimers' = Orphaned(predictTimers)
    /\ IF Route(p) = "NotFound"
       THEN /\ notFoundDeps' = NotFoundEffectDeps(p)
            /\ effectPending' = (Route(pathname) # "NotFound" \/ notFoundDeps' # notFoundDeps)
            /\ effectPending' => Len(console) < MaxLog
       ELSE /\ notFoundDeps' = <<>>
            /\ effectPending' = FALSE
    /\ UNCHANGED <<toasts, console>>

\* a link of the navigation bar, which the Dashboard renders
ClickNavLink(href) ==
    /\ phase = "mounted"
    /\ href \in navItems
    /\ GoTo(href)

\* the "Return Home" link of NotFound
ClickReturnHome ==
    /\ Route(pathname) = "NotFound"
    /\ GoTo("/")

\* any other client-side change of the location (history traversal, links
\* of the home page)
Navigate(p) ==
    /\ p \in Paths
    /\ GoTo(p)

\* useEffect(..., [location.pathname]) of NotFound
NotFoundEffect ==
    /\ effectPending
    /\ console' = Append(console, pathname)
    /\ effectPending' = FALSE
    /\ UNCHANGED <<pathname, phase, isLoaded, isSubmitting, featureValues,
                   predictionResult, aiInsights, loadTimer, predictTimers, toasts,
                   notFoundDeps>>

Next ==
    \/ MountEffect
    \/ LoadTimerFires
    \/ \E name \in FeatureNames : \E v \in SliderEmits(name) : SliderChange(name, v)
    \/ Reset
    \/ Predict
    \/ \E r \in RandomDraws : PredictTimerFires(r)
    \/ \E href \in navItems : ClickNavLink(href)
    \/ ClickReturnHome
    \/ \E p \in Paths : Navigate(p)
    \/ NotFoundEffect

\* the whole application
Spec == Init /\ [][Next]_vars

\* Sessions that stay on the two routes of the navigation bar.  Nothing of
\* the Dashboard reads console, notFoundDeps or effectPending, and leaving
\* for an unmatched path unmounts the Dashboard exactly as leaving for "/".
DashboardInit == Init /\ pathname \in navItems

DashboardNext ==
    \/ MountEffect
    \/ LoadTimerFires
    \/ \E name \in FeatureNames : \E v \in SliderEmits(name) : SliderChange(name, v)
    \/ Reset
    \/ Predict
    \/ \E r \in RandomDraws : PredictTimerFires(r)
    \/ \E href \in navItems : ClickNavLink(href)
    \/ \E p \in navItems : Navigate(p)

DashboardSpec == DashboardInit /\ [][DashboardNext]_vars

\* timers fire and effects run; nothing obliges the user to act
FairDashboardSpec ==
    /\ DashboardSpec
    /\ WF_vars(MountEffect)
    /\ WF_vars(LoadTimerFires)
    /\ WF_vars(\E r \in RandomDraws : PredictTimerFires(r))

\* Sessions in which the sliders and buttons of the Dashboard are left
\* alone.  Nothing of NotFound reads the state of the Dashboard.
NotFoundNext ==
    \/ MountEffect
    \/ LoadTimerFires
    \/ \E href \in navItems : ClickNavLink(href)
    \/ ClickReturnHome
    \/ \E p \in Paths : Navigate(p)
    \/ NotFoundEffect

NotFoundSpec == Init /\ [][NotFoundNext]_vars

TypeOK ==
    /\ pathname \in Paths
    /\ phase \in {"unmounted", "rendered", "mounted"}
    /\ isLoaded \in BOOLEAN
    /\ isSubmitting \in BOOLEAN
    /\ DOMAIN featureValues \subseteq FeatureNames
    /\ Len(predictionResult) <= 1
    /\ Len(aiInsights) <= 1
    /\ loadTimer \in BOOLEAN
    /\ effectPending \in BOOLEAN

(***************************************************************************)
(* Properties.                                                             *)
(***************************************************************************)
InRange(name, v) == featureDefaults[name].min <= v /\ v <= featureDefaults[name].max

\* C1: while the Dashboard is rendered, from its first render on, the value
\* handed to the slider of every feature lies within the [min, max] that
\* featureDefaults configures for it, and so does the number shown under the
\* slider whenever one is shown.
C1_SliderWithinRange ==
    phase # "unmounted" =>
        \A name \in FeatureNames :
            /\ InRange(name, SliderValue(featureValues, name))
            /\ Displayed(featureValues, name) # Null =>
                   InRange(name, Displayed(featureValues, name)[1])

\* a slider has been dragged to a negative lower end
C1_Witness ==
    /\ phase = "mounted"
    /\ "Temperature (C)" \in DOMAIN featureValues
    /\ featureValues["Temperature (C)"] = featureDefaults["Temperature (C)"].min
    /\ Displayed(featureValues, "Temperature (C)") = Some(-100)

\* the defaults as featureDefaults documents them, one per feature
DocumentedDefaults == [ name \in FeatureNames |-> featureDefaults[name].default ]

\* C2: handleReset leaves featureValues equal to the mapping of every feature
\* of mockFeatureNames to its default of featureDefaults, with no key missing
\* and none added, whatever came before; the mount effect installs that same
\* mapping.
C2_ResetRestoresDefaults ==
    [][(Reset \/ MountEffect) => featureValues' = DocumentedDefaults]_vars

\* a reset has followed a completed prediction
C2_Witness ==
    /\ phase = "mounted"
    /\ Len(toasts) = 2
    /\ toasts[1].via = "uiToast"
    /\ toasts[2] = ResetToast
    /\ featureValues = DocumentedDefaults
    /\ predictionResult = Null

Verdicts == { Some(HighResult), Some(LowResult) }

ExploredAssignments ==
    {Defaults} \cup
    UNION { { [Defaults EXCEPT ![name] = v] : v \in SliderEmits(name) } : name \in FeatureNames }

TimerIsLive == predictTimers # <<>> /\ Head(predictTimers).ownerMounted

\* C4: the verdict does not depend on the feature values.  For a pending
\* prediction and any draw, replacing the feature values of the run (those of
\* the state and those the callback closed over) by any other assignment
\* leaves predictionResult and the variant of the toast the same, and both
\* verdicts remain possible.
C4_VerdictIgnoresFeatures ==
    TimerIsLive =>
        LET timer == Head(predictTimers)
        IN  /\ \A r \in RandomDraws : \A fv \in ExploredAssignments :
                   LET other == [Dashboard EXCEPT !.featureValues = fv]
                       run1 == TimerCallback(Dashboard, timer, r)
                       run2 == TimerCallback(other, Closure(other), r)
                   IN  /\ run1.dashboard.predictionResult = run2.dashboard.predictionResult
                       /\ run1.toast.variant = run2.toast.variant
            /\ { TimerCallback(Dashboard, timer, r).dashboard.predictionResult :
                     r \in RandomDraws } = Verdicts

\* a low verdict was given for the highest rainfall the slider allows
C4_Witness ==
    /\ phase = "mounted"
    /\ predictionResult = Some(LowResult)
    /\ aiInsights[1].interpolated[1] = "300"

\* C5: NotFound logs the current pathname once when it mounts and once more
\* whenever the pathname changes to another unmatched path while it stays
\* mounted, and at no other time: once its effect has run the last line of
\* the console is the current pathname; an effect is scheduled exactly by a
\* change of the pathname to an unmatched path; and every line is written by
\* a scheduled effect, with the pathname of that moment.
C5_NotFoundLogsPathname ==
    /\ []((Route(pathname) = "NotFound" /\ ~effectPending) =>
              (console # <<>> /\ console[Len(console)] = pathname))
    /\ [][(effectPending' /\ ~effectPending) <=>
              (Route(pathname') = "NotFound" /\ pathname' # pathname)]_vars
    /\ [][console' # console =>
              /\ effectPending /\ ~effectPending'
              /\ Route(pathname) = "NotFound"
              /\ pathname' = pathname
              /\ console' = Append(console, pathname)]_vars

\* two unmatched paths were logged one after the other and the second one
\* is being shown
C5_Witness ==
    /\ Route(pathname) = "NotFound"
    /\ ~effectPending
    /\ console = <<"/about", "/forecast">>

\* C6: predictionResult and aiInsights are both null or both set; when set,
\* the verdict and the heading of the insight text belong to the same draw;
\* every timer that fires shows exactly one toast, destructive with a high
\* verdict and default with a low one, and no prediction toast is shown
\* otherwise.
C6_ResultAndInsightsAgree ==
    /\ [](/\ predictionResult = Null <=> aiInsights = Null
          /\ predictionResult # Null =>
                 \/ /\ predictionResult = Some(HighResult)
                    /\ aiInsights[1].heading = "Key risk factors:"
                 \/ /\ predictionResult = Some(LowResult)
                    /\ aiInsights[1].heading = "Favorable conditions:")
    /\ [][Len(predictTimers') < Len(predictTimers) =>
              /\ toasts' = Append(toasts, toasts'[Len(toasts')])
              /\ toasts'[Len(toasts')].via = "uiToast"
              /\ Head(predictTimers).ownerMounted =>
                     \/ /\ toasts'[Len(toasts')].variant = "destructive"
                        /\ predictionResult' = Some(HighResult)
                     \/ /\ toasts'[Len(toasts')].variant = "default"
                        /\ predictionResult' = Some(LowResult)]_vars
    /\ [][(toasts' # toasts /\ toasts'[Len(toasts')].via = "uiToast") =>
              Len(predictTimers') < Len(predictTimers)]_vars

\* a high verdict is shown with its insight text and its destructive toast
C6_Witness ==
    /\ predictionResult = Some(HighResult)
    /\ aiInsights # Null
    /\ aiInsights[1].heading = "Key risk factors:"
    /\ toasts # <<>>
    /\ toasts[Len(toasts)].variant = "destructive"

\* C7 as stated: whichever template the draw selects, three feature values
\* are interpolated into the insight text.
C7_ThreeValuesInEitherTemplate ==
    aiInsights # Null => Len(aiInsights[1].interpolated) = 3

\* C7, amended: the "Key risk factors" template interpolates three feature
\* values (rainfall, water level, humidity), the "Favorable conditions"
\* template two (rainfall, water level).
C7_ThreeValuesHighTwoLow ==
    aiInsights # Null =>
        Len(aiInsights[1].interpolated) =
            IF aiInsights[1].heading = "Key risk factors:" THEN 3 ELSE 2

\* the insight text of a low verdict, with its two values
C7_Witness ==
    /\ aiInsights # Null
    /\ aiInsights[1].heading = "Favorable conditions:"
    /\ aiInsights[1].interpolated = <<"50", "2">>

Observed(d) == <<d.featureValues, d.predictionResult, d.aiInsights, d.isSubmitting>>

\* C8: while the timer of the mounted Dashboard is pending, the timer and a
\* slider change commute: for every draw, feature and value, firing the
\* timer and then moving the slider ends in the same featureValues,
\* predictionResult, aiInsights and isSubmitting as moving the slider and
\* then firing the timer; a slider change leaves the pending timer as it is.
C8_TimerCommutesWithSliders ==
    /\ [](TimerIsLive =>
              \A r \in RandomDraws : \A name \in FeatureNames : \A v \in SliderEmits(name) :
                  LET timer == Head(predictTimers)
                      timerFirst == handleSliderChange(
                                        TimerCallback(Dashboard, timer, r).dashboard, name, v)
                      sliderFirst == TimerCallback(
                                         handleSliderChange(Dashboard, name, v), timer, r).dashboard
                  IN  Observed(timerFirst) = Observed(sliderFirst))
    /\ [][(TimerIsLive /\ isSubmitting' /\ featureValues' # featureValues) =>
              predictTimers' = predictTimers]_vars

\* the water-level slider was moved while the timer is pending
C8_Witness ==
    /\ TimerIsLive
    /\ isSubmitting
    /\ Head(predictTimers).featureValues["Water Level (m)"] = 20
    /\ featureValues["Water Level (m)"] = 100

LiveTimers == { i \in DOMAIN predictTimers : predictTimers[i].ownerMounted }

\* C9 as stated: at most one prediction timer is pending at any time, and
\* isSubmitting is true exactly while one is pending.
C9_OneTimerAtAnyTime ==
    /\ Len(predictTimers) <= 1
    /\ phase = "mounted" => (isSubmitting <=> predictTimers # <<>>)

\* C9, amended: at most one timer of the mounted Dashboard is pending, and
\* isSubmitting is true exactly while one is; handlePredict and handleReset
\* run only while isSubmitting is false.  Timers of Dashboards that have
\* unmounted may be pending besides.
C9_OneTimerPerMountedDashboard ==
    /\ [](/\ Cardinality(LiveTimers) <= 1
          /\ isSubmitting <=> LiveTimers # {})
    /\ [][(Predict \/ Reset) => ~isSubmitting]_vars

\* a second prediction is pending while the timer of an unmounted Dashboard
\* has not fired yet
C9_Witness ==
    /\ Len(predictTimers) = 2
    /\ ~predictTimers[1].ownerMounted
    /\ predictTimers[2].ownerMounted
    /\ isSubmitting

\* C10: the closure of a prediction holds rainfall, water level and humidity
\* as they are when handlePredict is triggered; slider changes during the
\* delay leave it as it is; and the values interpolated when the timer fires
\* are those of the closure, not those of featureValues at that moment.
C10_InsightsUseValuesAtTrigger ==
    /\ [][Predict =>
              LET timer == predictTimers'[Len(predictTimers')]
              IN  \A k \in {"Rainfall (mm)", "Water Level (m)", "Humidity (%)"} :
                      k \in DOMAIN timer.featureValues /\ timer.featureValues[k] = featureValues[k]]_vars
    /\ [][Len(predictTimers') = Len(predictTimers) =>
              \A i \in DOMAIN predictTimers :
                  predictTimers'[i].featureValues = predictTimers[i].featureValues]_vars
    /\ [][(Len(predictTimers') < Len(predictTimers) /\ Head(predictTimers).ownerMounted) =>
              LET closed == Head(predictTimers).featureValues
                  text == aiInsights'[1].interpolated
              IN  /\ text[1] = NumberToString(closed["Rainfall (mm)"])
                  /\ text[2] = NumberToString(closed["Water Level (m)"])
                  /\ Len(text) = 3 => text[3] = NumberToString(closed["Humidity (%)"])]_vars

\* the insight text of a high verdict shows the humidity the prediction was
\* started with, not the one the slider shows now
C10_Witness ==
    /\ phase = "mounted"
    /\ aiInsights # Null
    /\ Len(aiInsights[1].interpolated) = 3
    /\ aiInsights[1].interpolated[3] = "60"
    /\ featureValues["Humidity (%)"] = 1000
    /\ Len(toasts) = 1

\* C11: handleReset leaves predictionResult and aiInsights null and leaves
\* no timer of the mounted Dashboard pending; a result is put on screen only
\* by the firing of a timer of the mounted Dashboard, and such a timer comes
\* into being only by handlePredict, so the result stays null after a reset
\* until a prediction triggered after it fires; a change of the sliders
\* alone leaves a displayed result and its insight text as they are.
C11_ResetClearsUntilNextPrediction ==
    /\ [][toasts' = Append(toasts, ResetToast) =>
              /\ predictionResult' = Null
              /\ aiInsights' = Null
              /\ LiveTimers' = {}]_vars
    /\ [][(\/ predictionResult' # Null /\ predictionResult' # predictionResult
           \/ aiInsights' # Null /\ aiInsights' # aiInsights) =>
              /\ TimerIsLive
              /\ predictTimers' = Tail(predictTimers)]_vars
    /\ [][Cardinality(LiveTimers') > Cardinality(LiveTimers) => Predict]_vars
    /\ [][(/\ phase = "mounted" /\ phase' = "mounted"
           /\ featureValues' # featureValues
           /\ toasts' = toasts) =>
              /\ predictionResult' = predictionResult
              /\ aiInsights' = aiInsights]_vars

\* a result is on screen again after a reset, from a prediction triggered
\* after it, and a slider has been moved since without touching it
C11_Witness ==
    /\ phase = "mounted"
    /\ Len(toasts) = 2
    /\ toasts[1] = ResetToast
    /\ toasts[2].via = "uiToast"
    /\ predictionResult \in Verdicts
    /\ aiInsights[1].interpolated[1] = "50"
    /\ featureValues["Rainfall (mm)"] = 0

====
